---- MODULE Spec2Model ----
(***************************************************************************)
(* The Aura Analysis Engine of AuraSnap.                                   *)
(*                                                                         *)
(* Part 1 models backend/internal/services/aura_service.go: the service    *)
(* entry point AuraService.Create, the provider client                     *)
(* (callOpenAIVision / doOpenAIRequest), the normalizer validateAIResult   *)
(* and the fallback generator createMockReading.                           *)
(*                                                                         *)
(* Go strings are TLA+ strings; strings.ToLower and strings.TrimSpace are  *)
(* computed on the finite universe of strings the model feeds in.  A Go    *)
(* nil pointer is NIL, an optional value is a sequence of length 0 or 1.   *)
(***************************************************************************)
EXTENDS Integers, Sequences, FiniteSets, TLC

NIL == "<nil>"

(***************************************************************************)
(* Bounds of the model.                                                    *)
(***************************************************************************)
\* longest strengths / challenges array a provider reply carries
MaxArr == 4
\* rand.Intn(n) is explored on its MaxDraw lowest and MaxDraw highest values
MaxDraw == 2

(***************************************************************************)
(* Static tables of aura_service.go.                                       *)
(***************************************************************************)
colors ==
  <<"red", "orange", "yellow", "green", "blue", "indigo", "violet", "white", "gold", "pink">>

secondaryColors == <<"silver", "gold", "white", "black", "grey">>

allowedPrimaryColors ==
  {"red", "orange", "yellow", "green", "blue", "indigo", "violet", "white", "gold", "pink"}

allowedSecondaryColors == {"silver", "gold", "white", "black", "grey"}

colorTraits ==
  [ red |->
      [ personality |-> "Passionate, energetic, and action-oriented.",
        strengths   |-> <<"Courage", "Leadership", "Determination">>,
        challenges  |-> <<"Impulsiveness", "Patience", "Anger Management">>,
        dailyAdvice |-> "Channel your energy into a physical activity today. Avoid hasty decisions." ],
    orange |->
      [ personality |-> "Creative, social, and adventurous.",
        strengths   |-> <<"Creativity", "Optimism", "Social Skills">>,
        challenges  |-> <<"Scattered Focus", "Restlessness", "Overcommitment">>,
        dailyAdvice |-> "Start a new creative project. Connect with an old friend." ],
    yellow |->
      [ personality |-> "Optimistic, intellectual, and cheerful.",
        strengths   |-> <<"Analytical Thinking", "Positivity", "Communication">>,
        challenges  |-> <<"Critical Nature", "Overthinking", "Perfectionism">>,
        dailyAdvice |-> "Share your ideas with others. Take time to relax your mind." ],
    green |->
      [ personality |-> "Balanced, growth-oriented, and nurturing.",
        strengths   |-> <<"Compassion", "Reliability", "Growth Mindset">>,
        challenges  |-> <<"Jealousy", "Possessiveness", "Insecurity">>,
        dailyAdvice |-> "Spend time in nature. Nurture a relationship or a plant." ],
    blue |->
      [ personality |-> "Calm, intuitive, and trustworthy.",
        strengths   |-> <<"Communication", "Intuition", "Loyalty">>,
        challenges  |-> <<"Fear of Expression", "Melancholy", "Stubbornness">>,
        dailyAdvice |-> "Speak your truth today. Trust your gut feelings." ],
    indigo |->
      [ personality |-> "Intuitive, wise, and deeply spiritual.",
        strengths   |-> <<"Vision", "Wisdom", "Integrity">>,
        challenges  |-> <<"Isolation", "Judgment", "Rigidity">>,
        dailyAdvice |-> "Meditate or reflect on your long-term goals. Practice forgiveness." ],
    violet |->
      [ personality |-> "Visionary, artistic, and magical.",
        strengths   |-> <<"Imagination", "Humanitarianism", "Leadership">>,
        challenges  |-> <<"Unrealistic Expectations", "Arrogance", "Detachment">>,
        dailyAdvice |-> "Engage in art or music. Visualize your ideal future." ],
    white |->
      [ personality |-> "Pure, balanced, and spiritually connected.",
        strengths   |-> <<"Purity", "Healing", "High Vibration">>,
        challenges  |-> <<"Vulnerability", "Naivety", "Disconnection from Reality">>,
        dailyAdvice |-> "Focus on cleansing your space, physical or mental. Protect your energy." ],
    gold |->
      [ personality |-> "Confident, abundant, and empowered.",
        strengths   |-> <<"Confidence", "Generosity", "Willpower">>,
        challenges  |-> <<"Ego", "Greed", "Overbearing nature">>,
        dailyAdvice |-> "Share your abundance with others. Practice humility." ],
    pink |->
      [ personality |-> "Loving, gentle, and compassionate.",
        strengths   |-> <<"Love", "Empathy", "Nurturing">>,
        challenges  |-> <<"Neediness", "Martyrdom", "Lack of Boundaries">>,
        dailyAdvice |-> "Practice self-love. Set healthy boundaries with kindness." ] ]

(***************************************************************************)
(* strings.ToLower and strings.TrimSpace on the strings of the model: the  *)
(* only strings with an upper-case letter are "Blue", "Gold", "GOLD" and   *)
(* " Blue ", the only ones with surrounding white space are " ", " blue ", *)
(* " Blue " and " gold ".                                                  *)
(***************************************************************************)
ToLower(s) ==
  CASE s = "Blue"   -> "blue"
    [] s = "Gold"   -> "gold"
    [] s = "GOLD"   -> "gold"
    [] s = " Blue " -> " blue "
    [] OTHER        -> s

TrimSpace(s) ==
  CASE s = " "      -> ""
    [] s = " blue " -> "blue"
    [] s = " Blue " -> "Blue"
    [] s = " gold " -> "gold"
    [] OTHER        -> s

(***************************************************************************)
(* validateAIResult (aura_service.go:321-391), one operator per block of   *)
(* the function, in the order the function runs them.                      *)
(***************************************************************************)
\* lines 322-326: an unknown primary color is replaced by "blue", then the
\* color is lower-cased
ValidatePrimaryColor(AuraColor) ==
  LET checked == IF ToLower(AuraColor) \in allowedPrimaryColors THEN AuraColor ELSE "blue"
  IN  ToLower(checked)

\* lines 328-336: a secondary color outside the allowed set becomes nil, an
\* allowed one is lower-cased
ValidateSecondaryColor(SecondaryColor) ==
  IF SecondaryColor # NIL
    THEN LET lower == ToLower(SecondaryColor)
         IN  IF lower \notin allowedSecondaryColors THEN NIL ELSE lower
    ELSE NIL

\* ClampEnergyLevel without its upper bound
ClampEnergyLevelNoUpper(EnergyLevel) == IF EnergyLevel < 1 THEN 1 ELSE EnergyLevel

\* lines 338-344
ClampEnergyLevel(EnergyLevel) ==
  LET low == IF EnergyLevel < 1 THEN 1 ELSE EnergyLevel
  IN  IF low > 100 THEN 100 ELSE low

\* ClampMoodScore without its lower bound
ClampMoodScoreNoLower(MoodScore) == IF MoodScore > 10 THEN 10 ELSE MoodScore

\* lines 346-352
ClampMoodScore(MoodScore) ==
  LET low == IF MoodScore < 1 THEN 1 ELSE MoodScore
  IN  IF low > 10 THEN 10 ELSE low

\* EnsureStrengths that pads a short array and leaves a long one as it is
EnsureStrengthsNoCut(Strengths) ==
  LET defaults == <<"Resilience", "Adaptability", "Awareness">>
  IN  IF Len(Strengths) < 3
        THEN Strengths \o SubSeq(defaults, Len(Strengths) + 1, 3)
        ELSE Strengths

\* lines 354-362
EnsureStrengths(Strengths) ==
  LET defaults == <<"Resilience", "Adaptability", "Awareness">>
  IN  IF Len(Strengths) < 3
        THEN Strengths \o SubSeq(defaults, Len(Strengths) + 1, 3)
        ELSE IF Len(Strengths) > 3 THEN SubSeq(Strengths, 1, 3) ELSE Strengths

\* EnsureChallenges that adds one default to a short array, not all it lacks
EnsureChallengesAddsOne(Challenges) ==
  LET defaults == <<"Self-doubt", "Overthinking", "Boundaries">>
  IN  IF Len(Challenges) < 3
        THEN Append(Challenges, defaults[Len(Challenges) + 1])
        ELSE IF Len(Challenges) > 3 THEN SubSeq(Challenges, 1, 3) ELSE Challenges

\* lines 364-372
EnsureChallenges(Challenges) ==
  LET defaults == <<"Self-doubt", "Overthinking", "Boundaries">>
  IN  IF Len(Challenges) < 3
        THEN Challenges \o SubSeq(defaults, Len(Challenges) + 1, 3)
        ELSE IF Len(Challenges) > 3 THEN SubSeq(Challenges, 1, 3) ELSE Challenges

\* EnsurePersonality that fills in the generic text whatever the color
EnsurePersonalityGeneric(Personality, AuraColor) ==
  IF TrimSpace(Personality) = ""
    THEN "A balanced and thoughtful individual with a unique energy."
    ELSE Personality

\* lines 374-381; AuraColor is the color already validated
EnsurePersonality(Personality, AuraColor) ==
  IF TrimSpace(Personality) = ""
    THEN IF AuraColor \in DOMAIN colorTraits
           THEN colorTraits[AuraColor].personality
           ELSE "A balanced and thoughtful individual with a unique energy."
    ELSE Personality

\* lines 383-390
EnsureDailyAdvice(DailyAdvice, AuraColor) ==
  IF TrimSpace(DailyAdvice) = ""
    THEN IF AuraColor \in DOMAIN colorTraits
           THEN colorTraits[AuraColor].dailyAdvice
           ELSE "Take a moment to appreciate the present. Your energy is unique."
    ELSE DailyAdvice

validateAIResult(result) ==
  LET AuraColor == ValidatePrimaryColor(result.AuraColor)
  IN  [ AuraColor      |-> AuraColor,
        SecondaryColor |-> ValidateSecondaryColor(result.SecondaryColor),
        EnergyLevel    |-> ClampEnergyLevel(result.EnergyLevel),
        MoodScore      |-> ClampMoodScore(result.MoodScore),
        Personality    |-> EnsurePersonality(result.Personality, AuraColor),
        Strengths      |-> EnsureStrengths(result.Strengths),
        Challenges     |-> EnsureChallenges(result.Challenges),
        DailyAdvice    |-> EnsureDailyAdvice(result.DailyAdvice, AuraColor) ]

(***************************************************************************)
(* models.AuraReading as Create and createMockReading fill it.  The id and *)
(* the timestamps the store assigns are left out.                          *)
(***************************************************************************)
AuraReading(userID, imageURL, r) ==
  [ UserID         |-> userID,
    ImageURL       |-> imageURL,
    AuraColor      |-> r.AuraColor,
    SecondaryColor |-> r.SecondaryColor,
    EnergyLevel    |-> r.EnergyLevel,
    MoodScore      |-> r.MoodScore,
    Personality    |-> r.Personality,
    Strengths      |-> r.Strengths,
    Challenges     |-> r.Challenges,
    DailyAdvice    |-> r.DailyAdvice ]

(***************************************************************************)
(* math/rand: rand.Intn(n) returns any value of 0..n-1.  The model draws   *)
(* the MaxDraw lowest and the MaxDraw highest of them.                     *)
(***************************************************************************)
Intn(n) == { k \in 0..(n - 1) : k < MaxDraw \/ k >= n - MaxDraw }

\* createMockReading, lines 395-420: the reading built from the five draws
\* colorDraw = rand.Intn(len(colors)), chance = rand.Intn(10),
\* secDraw = rand.Intn(len(secondaryColors)), energyDraw = rand.Intn(56),
\* moodDraw = rand.Intn(6)
MockReading(userID, imageURL, colorDraw, chance, secDraw, energyDraw, moodDraw) ==
  LET selectedColor == colors[colorDraw + 1]
      traits == colorTraits[selectedColor]
      secColor == IF chance > 7 THEN secondaryColors[secDraw + 1] ELSE NIL
  IN  [ UserID         |-> userID,
        ImageURL       |-> imageURL,
        AuraColor      |-> selectedColor,
        SecondaryColor |-> secColor,
        EnergyLevel    |-> energyDraw + 40,
        MoodScore      |-> moodDraw + 5,
        Personality    |-> traits.personality,
        Strengths      |-> traits.strengths,
        Challenges     |-> traits.challenges,
        DailyAdvice    |-> traits.dailyAdvice ]

\* every reading createMockReading can build for one request
MockReadings(userID, imageURL) ==
  { MockReading(userID, imageURL, c, ch, s, e, m) :
      c \in Intn(Len(colors)), ch \in Intn(10), s \in Intn(Len(secondaryColors)),
      e \in Intn(56), m \in Intn(6) }

(***************************************************************************)
(* What the model feeds in.                                                *)
(***************************************************************************)
UserIDs == {"u1", "u2"}
ImageURLs == {"https://x/y.jpg", "https://x/z.jpg"}

\* the i-th distinct non-empty array element of a reply
Word(i) == "w" \o ToString(i)

\* the arrays of n elements whose i-th element is Word(i) or the empty string
ArraysOfLen(n) == { [i \in 1..n |-> IF i \in blank THEN "" ELSE Word(i)] : blank \in SUBSET (1..n) }

ReplyArrays == UNION { ArraysOfLen(n) : n \in 0..MaxArr }

ReplyColors == {"", "blue", "Blue", " blue ", "gold", "GOLD", "white", "teal"}
ReplySecondaries == {NIL, "", "null", "gold", "Gold", " gold ", "white", "pink"}
ReplyEnergies == {-5, 0, 1, 50, 100, 101, 120}
ReplyMoods == {-1, 0, 1, 7, 10, 11}
ReplyTexts == {"", " ", "A calm soul."}

\* what encoding/json decodes from "{}": every field at its zero value
ZeroResult ==
  [ AuraColor |-> "", SecondaryColor |-> NIL, EnergyLevel |-> 0, MoodScore |-> 0,
    Personality |-> "", Strengths |-> <<>>, Challenges |-> <<>>, DailyAdvice |-> "" ]

\* a reply that follows the system prompt (lines 169-179)
FullResult ==
  [ AuraColor |-> "blue", SecondaryColor |-> "gold", EnergyLevel |-> 88, MoodScore |-> 9,
    Personality |-> "A calm soul.", Strengths |-> <<"w1", "w2", "w3">>,
    Challenges |-> <<"w1", "w2", "w3">>, DailyAdvice |-> "Rest today." ]

(***************************************************************************)
(* The decoded auraAIResult values a provider reply carries: the colors,   *)
(* the numbers, the arrays and the texts each vary over all their          *)
(* combinations while the other fields are those of ZeroResult or of       *)
(* FullResult.                                                             *)
(***************************************************************************)
Replies ==
  UNION { { [base EXCEPT !.AuraColor = c, !.SecondaryColor = sc] :
              c \in ReplyColors, sc \in ReplySecondaries }
          \cup { [base EXCEPT !.EnergyLevel = e, !.MoodScore = m] :
              e \in ReplyEnergies, m \in ReplyMoods }
          \cup { [base EXCEPT !.Strengths = st, !.Challenges = ch] :
              st \in ReplyArrays, ch \in ReplyArrays }
          \cup { [base EXCEPT !.AuraColor = c, !.Personality = p, !.DailyAdvice = d] :
              c \in ReplyColors, p \in ReplyTexts, d \in ReplyTexts }
        : base \in {ZeroResult, FullResult} }

(***************************************************************************)
(* The outcomes of one doOpenAIRequest (lines 272-319): the kind of        *)
(* outcome, the status code the function returns with it, and the decoded  *)
(* result when there is one.                                               *)
(***************************************************************************)
StatusOK == 200
StatusTooManyRequests == 429
StatusInternalServerError == 500

Outcome(kind, status, result) == [kind |-> kind, status |-> status, result |-> result]

NoResponse == Outcome("none", 0, ZeroResult)

Failures ==
  \* line 285: client.Do fails (no connection, timeout)
  { Outcome("transport", 0, ZeroResult) }
  \* line 291: the body cannot be read
  \cup { Outcome("readBody", st, ZeroResult) :
           st \in {StatusOK, StatusTooManyRequests, StatusInternalServerError} }
  \* line 295: a status other than 200
  \cup { Outcome("status", st, ZeroResult) :
           st \in {StatusTooManyRequests, StatusInternalServerError} }
  \* lines 300, 304, 308, 315: an undecodable envelope, an error payload, no
  \* choices, undecodable content
  \cup { Outcome(k, StatusOK, ZeroResult) :
           k \in {"badEnvelope", "apiError", "noChoices", "badContent"} }
  \* lines 314-315: the content is the JSON of FullResult inside prose or
  \* markdown fences; json.Unmarshal fails on the text around the object
  \cup { Outcome("wrappedContent", StatusOK, FullResult) }

Successes == { Outcome("ok", StatusOK, r) : r \in Replies }

(***************************************************************************)
(* State of one AuraService and of the Create call it is serving.          *)
(***************************************************************************)
VARIABLES
  OpenAIAPIKey,  \* cfg.OpenAIAPIKey, fixed at construction
  pc,            \* "idle" | "http" (request in flight) | "sleep" (backoff) |
                 \* "done" (Create has returned)
  userID,        \* arguments of the call
  imageURL,
  attempt,       \* loop variable of callOpenAIVision
  httpCount,     \* HTTP requests this call has issued
  resp,          \* outcome of the last doOpenAIRequest
  aiErr,         \* kind of the error callOpenAIVision returned, "" for nil
  mock,          \* <<r>>: createMockReading built r in this call; <<>>: it did not run
  reading,       \* <<r>>: Create returned r; <<>>: it returned nil
  err,           \* error Create returned: "" for nil, "db" for the store's error
  inserts,       \* rows this call has inserted into the store
  prev           \* <<p>>: arguments and outcome of the call before this one

srcVars ==
  << OpenAIAPIKey, pc, userID, imageURL, attempt, httpCount, resp, aiErr, mock,
     reading, err, inserts, prev >>

\* Persist with a store that keeps the row of an insert it reports as failed
PersistKeepsRow(r, dbOK) ==
  /\ inserts' = Append(inserts, r)
  /\ reading' = IF dbOK THEN <<r>> ELSE <<>>
  /\ err' = IF dbOK THEN "" ELSE "db"

\* s.db.Create(reading) (lines 211-215, 422-426): the store inserts the row,
\* or fails and inserts nothing
Persist(r, dbOK) ==
  /\ inserts' = IF dbOK THEN Append(inserts, r) ELSE inserts
  /\ reading' = IF dbOK THEN <<r>> ELSE <<>>
  /\ err' = IF dbOK THEN "" ELSE "db"

\* UsesMock with the test of the key dropped
UsesMockNever(key) == FALSE

\* Create, lines 183-185: no API key, createMockReading answers the call
UsesMock(key) == key = ""

CreateMock(u, img, D) ==
  /\ pc = "idle"
  /\ UsesMock(OpenAIAPIKey)
  /\ userID' = u
  /\ imageURL' = img
  /\ \E r \in MockReadings(u, img), dbOK \in D :
       /\ mock' = <<r>>
       /\ Persist(r, dbOK)
  /\ pc' = "done"
  /\ UNCHANGED << OpenAIAPIKey, attempt, httpCount, resp, aiErr >>

\* Create, line 188, into callOpenAIVision, lines 249-256: the first
\* doOpenAIRequest is issued
CreateStart(u, img) ==
  /\ pc = "idle"
  /\ ~UsesMock(OpenAIAPIKey)
  /\ userID' = u
  /\ imageURL' = img
  /\ httpCount' = 1
  /\ pc' = "http"
  /\ UNCHANGED << OpenAIAPIKey, attempt, resp, aiErr, mock, reading, err, inserts >>

\* Retries that retries after any failure
RetriesAnyFailure(r, n) == n + 1 < 2

\* Retries with a loop of three attempts
RetriesThrice(r, n) == r.status = StatusTooManyRequests /\ n + 1 < 3

\* callOpenAIVision, lines 257-263: only a 429 is retried, and only while
\* the loop has an attempt left
Retries(r, n) == r.status = StatusTooManyRequests /\ n + 1 < 2

\* lines 260-263 and 252-254: the request failed with a 429, the loop
\* continues into its backoff
HttpRateLimited(R) ==
  /\ pc = "http"
  /\ \E r \in R :
       /\ Retries(r, attempt)
       /\ resp' = r
  /\ attempt' = attempt + 1
  /\ pc' = "sleep"
  /\ UNCHANGED << OpenAIAPIKey, userID, imageURL, httpCount, aiErr, mock, reading,
                  err, inserts, prev >>

\* lines 252-256: the backoff is over, the second doOpenAIRequest is issued
Backoff ==
  /\ pc = "sleep"
  /\ httpCount' = httpCount + 1
  /\ pc' = "http"
  /\ UNCHANGED << OpenAIAPIKey, userID, imageURL, attempt, resp, aiErr, mock,
                  reading, err, inserts, prev >>

\* lines 264 and 269 with Create, lines 189-192: callOpenAIVision gives up
\* with an error and createMockReading answers the call
HttpFailed(R, D) ==
  /\ pc = "http"
  /\ \E r \in R :
       /\ ~Retries(r, attempt)
       /\ resp' = r
       /\ aiErr' = r.kind
       /\ attempt' = IF r.status = StatusTooManyRequests THEN attempt + 1 ELSE attempt
  /\ \E m \in MockReadings(userID, imageURL), dbOK \in D :
       /\ mock' = <<m>>
       /\ Persist(m, dbOK)
  /\ pc' = "done"
  /\ UNCHANGED << OpenAIAPIKey, userID, imageURL, httpCount, prev >>

\* HttpOK without the call of validateAIResult
HttpOKRaw(R, D) ==
  /\ pc = "http"
  /\ \E r \in R, dbOK \in D :
       /\ resp' = r
       /\ Persist(AuraReading(userID, imageURL, r.result), dbOK)
  /\ pc' = "done"
  /\ UNCHANGED << OpenAIAPIKey, userID, imageURL, attempt, httpCount, aiErr, mock, prev >>

\* line 266 with Create, lines 194-215: the request succeeded, the decoded
\* result is validated, made a reading and inserted
HttpOK(R, D) ==
  /\ pc = "http"
  /\ \E r \in R, dbOK \in D :
       /\ resp' = r
       /\ Persist(AuraReading(userID, imageURL, validateAIResult(r.result)), dbOK)
  /\ pc' = "done"
  /\ UNCHANGED << OpenAIAPIKey, userID, imageURL, attempt, httpCount, aiErr, mock, prev >>

\* The caller has taken what Create returned; nothing of the call is kept in
\* the service (AuraService, lines 22-25, holds only db and cfg)
Return ==
  /\ pc = "done"
  /\ pc' = "idle"
  /\ userID' = "u1"
  /\ imageURL' = "https://x/y.jpg"
  /\ attempt' = 0
  /\ httpCount' = 0
  /\ resp' = NoResponse
  /\ aiErr' = ""
  /\ mock' = <<>>
  /\ reading' = <<>>
  /\ err' = ""
  /\ inserts' = <<>>
  /\ UNCHANGED OpenAIAPIKey

\* NewAuraService, lines 27-32: the service keeps the configuration it is given
SrcInit ==
  /\ OpenAIAPIKey \in {"", "sk-test"}
  /\ pc = "idle"
  /\ userID = "u1"
  /\ imageURL = "https://x/y.jpg"
  /\ attempt = 0
  /\ httpCount = 0
  /\ resp = NoResponse
  /\ aiErr = ""
  /\ mock = <<>>
  /\ reading = <<>>
  /\ err = ""
  /\ inserts = <<>>
  /\ prev = <<>>



(***************************************************************************)
(* The same service serving one call after another, with the arguments and *)
(* the outcome of the call before kept in prev, so that two calls can be   *)
(* compared.  The store accepts every insert, and the provider either      *)
(* cannot be reached or answers with FullResult.                           *)
(***************************************************************************)
Remember ==
  prev' = << [ userID |-> userID, imageURL |-> imageURL, aiErr |-> aiErr,
               mock |-> mock, reading |-> reading ] >>



(***************************************************************************)
(* Part 2: the analyzer the tests in aura_service_test.go exercise         *)
(* (deterministicAuraResult, normalizeAuraColor, parseAuraAIContent,       *)
(* mergeAuraAnalysis, newAuraAIAnalyzer).  Its source file is not part of  *)
(* the sources at hand; it is modelled from the specification, sections    *)
(* 3 to 5, and from what the tests call and expect.                        *)
(***************************************************************************)

\* section 4.4: the one fixed color a merged result is forced to
DefaultColor == "blue"

\* section 4.2, rule 1: the color trimmed and lower-cased, "" when it is not
\* one of the 10 allowed values
normalizeAuraColor(color) ==
  LET c == ToLower(TrimSpace(color))
  IN  IF c \in allowedPrimaryColors THEN c ELSE ""

\* section 4.2, rule 2, and the distinctness of section 3: the secondary
\* color trimmed and lower-cased; "", "null", a value outside the 5 allowed
\* ones or the primary color itself become "no secondary"
normalizeSecondaryColor(secondary, primary) ==
  IF secondary = NIL
    THEN NIL
    ELSE LET c == ToLower(TrimSpace(secondary))
         IN  IF c = "" \/ c = "null" \/ c \notin allowedSecondaryColors \/ c = primary
               THEN NIL
               ELSE c

\* section 4.2, rule 3
clampInt(v, lo, hi) == IF v < lo THEN lo ELSE IF v > hi THEN hi ELSE v

\* section 4.2, rule 4: exactly 3 elements, the first 3 of a longer array, a
\* shorter one padded with fixed placeholders
normalizeList(list, placeholders) ==
  IF Len(list) >= 3
    THEN SubSeq(list, 1, 3)
    ELSE list \o SubSeq(placeholders, Len(list) + 1, 3)

\* section 4.2: normalize(candidate) -> (AnalysisResult, ok)
normalize(candidate) ==
  LET color == normalizeAuraColor(candidate.AuraColor)
  IN  [ ok |-> color # "",
        result |->
          [ AuraColor      |-> color,
            SecondaryColor |-> normalizeSecondaryColor(candidate.SecondaryColor, color),
            EnergyLevel    |-> clampInt(candidate.EnergyLevel, 1, 100),
            MoodScore      |-> clampInt(candidate.MoodScore, 1, 10),
            Personality    |-> candidate.Personality,
            Strengths      |-> normalizeList(candidate.Strengths,
                                 <<"Resilience", "Adaptability", "Awareness">>),
            Challenges     |-> normalizeList(candidate.Challenges,
                                 <<"Self-doubt", "Overthinking", "Boundaries">>),
            DailyAdvice    |-> candidate.DailyAdvice ] ]

\* section 4.4 and TestMergeAuraAnalysisFallbackBehavior: a field of incoming
\* replaces the field of base only when incoming supplies a non-empty,
\* non-zero value for it; numbers are clamped; a color that is empty or
\* invalid after the merge is forced to DefaultColor
mergeColor(base, incoming) == IF incoming # "" THEN incoming ELSE base

\* mergeNumber that discards an out-of-range value instead of clamping it
mergeNumberDiscards(base, incoming, lo, hi) ==
  IF incoming >= lo /\ incoming <= hi THEN incoming ELSE base

mergeNumber(base, incoming, lo, hi) ==
  IF incoming # 0 THEN clampInt(incoming, lo, hi) ELSE base

mergeAuraAnalysis(base, incoming) ==
  LET color == mergeColor(base.AuraColor, incoming.AuraColor)
  IN  [ AuraColor      |-> IF color \notin allowedPrimaryColors THEN DefaultColor ELSE color,
        SecondaryColor |-> IF incoming.SecondaryColor \notin {NIL, ""}
                             THEN incoming.SecondaryColor
                             ELSE base.SecondaryColor,
        EnergyLevel    |-> mergeNumber(base.EnergyLevel, incoming.EnergyLevel, 1, 100),
        MoodScore      |-> mergeNumber(base.MoodScore, incoming.MoodScore, 1, 10),
        Personality    |-> IF incoming.Personality # ""
                             THEN incoming.Personality
                             ELSE base.Personality,
        Strengths      |-> IF Len(incoming.Strengths) > 0
                             THEN incoming.Strengths
                             ELSE base.Strengths,
        Challenges     |-> IF Len(incoming.Challenges) > 0
                             THEN incoming.Challenges
                             ELSE base.Challenges,
        DailyAdvice    |-> IF incoming.DailyAdvice # ""
                             THEN incoming.DailyAdvice
                             ELSE base.DailyAdvice ]

\* section 4.1: the baseline drawn from the bytes of the hash of
\* (imageRef, userID); the narrative fields are left for the Trait Catalog
generateBaseline(hash) ==
  LET primary == colors[(hash[1] % 10) + 1]
      drawn == secondaryColors[(hash[5] % 5) + 1]
  IN  [ AuraColor      |-> primary,
        SecondaryColor |-> IF hash[4] % 4 = 0 /\ drawn # primary THEN drawn ELSE NIL,
        EnergyLevel    |-> (hash[2] % 51) + 45,
        MoodScore      |-> (hash[3] % 6) + 5,
        Personality    |-> "",
        Strengths      |-> <<>>,
        Challenges     |-> <<>>,
        DailyAdvice    |-> "" ]

\* the hash bytes the model draws baselines from: red or gold, energy 50,
\* mood 7, with and without a secondary draw of silver or gold
BaselineHashes ==
  { <<b0, 5, 2, b3, b4>> : b0 \in {0, 8}, b3 \in {0, 1}, b4 \in {0, 1} }

Baselines == { generateBaseline(h) : h \in BaselineHashes }

(***************************************************************************)
(* mergeAuraAnalysis applied to inputs drawn at the start, as the test     *)
(* TestMergeAuraAnalysisFallbackBehavior applies it.                       *)
(***************************************************************************)
VARIABLES
  mPc,        \* "in": inputs drawn; "out": merged
  mBase,
  mIncoming,
  mMerged

mergeVars == << mPc, mBase, mIncoming, mMerged >>

\* baselines as generated, and the same with narrative fields filled in
MergeBases ==
  Baselines \cup
  { [b EXCEPT !.Personality = "Base text.", !.DailyAdvice = "Base advice.",
              !.Strengths = <<"b1", "b2", "b3">>, !.Challenges = <<"c1", "c2", "c3">>] :
      b \in Baselines }

MergeIncomings ==
  { [ZeroResult EXCEPT !.AuraColor = c, !.SecondaryColor = sc, !.EnergyLevel = e,
                       !.MoodScore = m, !.Personality = p, !.Strengths = st] :
      c \in {"", "gold", "red", "teal"}, sc \in {NIL, "", "gold", "silver"},
      e \in {-5, 0, 50, 120}, m \in {-1, 0, 7, 11}, p \in {"", "A calm soul."},
      st \in {<<>>, <<"w1", "w2", "w3">>} }
  \cup
  { [ZeroResult EXCEPT !.Challenges = ch, !.DailyAdvice = d] :
      ch \in {<<>>, <<"w1", "w2", "w3">>}, d \in {"", "Rest today."} }

MergeIdle ==
  /\ mPc = "off"
  /\ mBase = ZeroResult
  /\ mIncoming = ZeroResult
  /\ mMerged = ZeroResult

MergeInit ==
  /\ mPc = "in"
  /\ mBase \in MergeBases
  /\ mIncoming \in MergeIncomings
  /\ mMerged = ZeroResult

MergeCall ==
  /\ mPc = "in"
  /\ mMerged' = mergeAuraAnalysis(mBase, mIncoming)
  /\ mPc' = "out"
  /\ UNCHANGED << mBase, mIncoming >>

(***************************************************************************)
(* The Provider Orchestrator and its Provider Clients, sections 4.3, 4.4.  *)
(***************************************************************************)
VARIABLES
  providers,  \* the provider list, fixed at construction
  ePc,        \* "idle" | "call" (request in flight) | "backoff" | "done"
  eBaseline,  \* argument of enrich
  eIdx,       \* index of the provider being attempted
  eAttempt,   \* requests already failed with a rate limit for this provider
  inFlight,   \* providers with a request under way
  calls,      \* providers in the order their requests were issued
  failed,     \* providers whose call ended in a failure
  eResp,      \* outcome of the last request
  candidate,  \* <<c>>: the normalized candidate of the provider that succeeded
  enriched,   \* <<r>>: what enrich returned
  winner      \* provider that succeeded, NIL when there is none

enrichVars ==
  << providers, ePc, eBaseline, eIdx, eAttempt, inFlight, calls, failed, eResp,
     candidate, enriched, winner >>

(***************************************************************************)
(* config.Load (config.go): the credentials of the two providers, each     *)
(* read from its environment variable, from the AURA_ variable when that   *)
(* one is unset or empty, and empty when both are.                         *)
(***************************************************************************)
VARIABLES
  GLMAPIKey,       \* cfg.GLMAPIKey
  DeepSeekAPIKey   \* cfg.DeepSeekAPIKey

cfgVars == << GLMAPIKey, DeepSeekAPIKey >>

\* getEnv, lines 90-95; val is what os.Getenv gives for the key
getEnv(val, fallback) == IF val # "" THEN val ELSE fallback

\* the environments the process is started in: each variable unset or set
Environments ==
  [ GLM_API_KEY : {"", "glm-key"}, AURA_GLM_API_KEY : {"", "glm-key"},
    DEEPSEEK_API_KEY : {"", "ds-key"}, AURA_DEEPSEEK_API_KEY : {"", "ds-key"} ]

\* Load, lines 62-69
Load(env) ==
  [ GLMAPIKey      |-> getEnv(env.GLM_API_KEY, getEnv(env.AURA_GLM_API_KEY, "")),
    DeepSeekAPIKey |-> getEnv(env.DEEPSEEK_API_KEY, getEnv(env.AURA_DEEPSEEK_API_KEY, "")) ]

\* no provider credential configured
NoProviderConfig == GLMAPIKey = "" /\ DeepSeekAPIKey = ""

\* newAuraAIAnalyzer that lists both providers whatever their credentials
newAuraAIAnalyzerAll(glmKey, deepSeekKey) == <<"glm", "deepseek">>

\* section 6 and TestAuraProviderPriorityGLMFirst: the providers that have a
\* credential, GLM before DeepSeek
newAuraAIAnalyzer(glmKey, deepSeekKey) ==
  (IF glmKey # "" THEN <<"glm">> ELSE <<>>)
    \o (IF deepSeekKey # "" THEN <<"deepseek">> ELSE <<>>)

\* the candidates provider replies carry: colors, numbers, texts and each
\* array vary while the other fields are those of ZeroResult or FullResult
EnrichCandidates ==
  UNION { { [base EXCEPT !.AuraColor = c, !.SecondaryColor = sc] :
              c \in ReplyColors, sc \in ReplySecondaries }
          \cup { [base EXCEPT !.EnergyLevel = e, !.MoodScore = m] :
              e \in ReplyEnergies, m \in ReplyMoods }
          \cup { [base EXCEPT !.Strengths = st] : st \in ReplyArrays }
          \cup { [base EXCEPT !.Challenges = ch] : ch \in ReplyArrays }
          \cup { [base EXCEPT !.Personality = p, !.DailyAdvice = d] :
              p \in ReplyTexts, d \in ReplyTexts }
        : base \in {ZeroResult, FullResult} }

\* outcome of one HTTP round trip to a provider; content is the reply text:
\* "plain" JSON, JSON "wrapped" in prose or fences, or "garbage"
Reply(kind, status, content, cand) ==
  [kind |-> kind, status |-> status, content |-> content, candidate |-> cand]

NoReply == Reply("none", 0, "none", ZeroResult)

ProviderOutcomes ==
  { Reply("transport", 0, "none", ZeroResult) }
  \cup { Reply("status", st, "none", ZeroResult) :
           st \in {StatusTooManyRequests, StatusInternalServerError} }
  \cup { Reply("noChoices", StatusOK, "none", ZeroResult) }
  \cup { Reply("reply", StatusOK, "garbage", ZeroResult) }
  \cup { Reply("reply", StatusOK, "plain", c) : c \in EnrichCandidates }
  \cup { Reply("reply", StatusOK, "wrapped", c) : c \in {ZeroResult, FullResult} }

\* section 4.3, response handling: direct decoding, then the text from the
\* first "{" to the last "}", then the normalizer
parseAuraAIContent(o) ==
  LET direct == o.content = "plain"
      braces == o.content = "wrapped"
      n == normalize(o.candidate)
  IN  IF direct \/ braces
        THEN [ok |-> n.ok, result |-> n.result]
        ELSE [ok |-> FALSE, result |-> ZeroResult]

\* section 4.3: the call of a provider succeeds when the round trip
\* succeeded and the reply decodes into a candidate the normalizer accepts
CallSucceeds(o) == o.kind = "reply" /\ parseAuraAIContent(o).ok

\* section 4.3, retry policy: one retry, on a rate-limit status only
RetriesCall(o, n) == o.status = StatusTooManyRequests /\ n < 1

\* Advance that issues the requests of provider i and of every provider
\* after it at once
AdvanceRacing(i, b, cs) ==
  /\ eIdx' = i
  /\ eAttempt' = 0
  /\ winner' = NIL
  /\ candidate' = <<>>
  /\ IF i <= Len(providers)
       THEN /\ inFlight' = { providers[k] : k \in i..Len(providers) }
            /\ calls' = cs \o SubSeq(providers, i, Len(providers))
            /\ enriched' = <<>>
            /\ ePc' = "call"
       ELSE /\ inFlight' = {}
            /\ calls' = cs
            /\ enriched' = <<b>>
            /\ ePc' = "done"

\* section 4.4: the request of provider i is issued, or, the list being
\* exhausted, enrich returns the baseline; cs are the requests issued so far
Advance(i, b, cs) ==
  /\ eIdx' = i
  /\ eAttempt' = 0
  /\ winner' = NIL
  /\ candidate' = <<>>
  /\ IF i <= Len(providers)
       THEN /\ inFlight' = {providers[i]}
            /\ calls' = Append(cs, providers[i])
            /\ enriched' = <<>>
            /\ ePc' = "call"
       ELSE /\ inFlight' = {}
            /\ calls' = cs
            /\ enriched' = <<b>>
            /\ ePc' = "done"

EnrichBegin(b) ==
  /\ ePc = "idle"
  /\ eBaseline' = b
  /\ failed' = {}
  /\ eResp' = NoReply
  /\ Advance(1, b, <<>>)
  /\ UNCHANGED providers

ProviderRateLimited(O) ==
  /\ ePc = "call"
  /\ \E o \in O :
       /\ RetriesCall(o, eAttempt)
       /\ eResp' = o
  /\ eAttempt' = eAttempt + 1
  /\ inFlight' = {}
  /\ ePc' = "backoff"
  /\ UNCHANGED << providers, eBaseline, eIdx, calls, failed, candidate, enriched, winner >>

ProviderBackoff ==
  /\ ePc = "backoff"
  /\ inFlight' = {providers[eIdx]}
  /\ calls' = Append(calls, providers[eIdx])
  /\ ePc' = "call"
  /\ UNCHANGED << providers, eBaseline, eIdx, eAttempt, failed, eResp, candidate,
                  enriched, winner >>

ProviderFailed(O) ==
  /\ ePc = "call"
  /\ \E o \in O :
       /\ ~CallSucceeds(o)
       /\ ~RetriesCall(o, eAttempt)
       /\ eResp' = o
  /\ failed' = failed \cup {providers[eIdx]}
  /\ Advance(eIdx + 1, eBaseline, calls)
  /\ UNCHANGED << providers, eBaseline >>

\* ProviderSucceeded that goes on to the next provider after a success
ProviderSucceededKeepsGoing(O) ==
  /\ ePc = "call"
  /\ \E o \in O :
       /\ CallSucceeds(o)
       /\ eResp' = o
       /\ candidate' = <<parseAuraAIContent(o).result>>
       /\ enriched' = <<mergeAuraAnalysis(eBaseline, parseAuraAIContent(o).result)>>
  /\ winner' = providers[eIdx]
  /\ IF eIdx < Len(providers)
       THEN /\ eIdx' = eIdx + 1
            /\ inFlight' = {providers[eIdx + 1]}
            /\ calls' = Append(calls, providers[eIdx + 1])
            /\ ePc' = "call"
       ELSE /\ eIdx' = eIdx
            /\ inFlight' = {}
            /\ calls' = calls
            /\ ePc' = "done"
  /\ UNCHANGED << providers, eBaseline, eAttempt, failed >>

ProviderSucceeded(O) ==
  /\ ePc = "call"
  /\ \E o \in O :
       /\ CallSucceeds(o)
       /\ eResp' = o
       /\ candidate' = <<parseAuraAIContent(o).result>>
       /\ enriched' = <<mergeAuraAnalysis(eBaseline, parseAuraAIContent(o).result)>>
  /\ winner' = providers[eIdx]
  /\ inFlight' = {}
  /\ ePc' = "done"
  /\ UNCHANGED << providers, eBaseline, eIdx, eAttempt, calls, failed >>

EnrichReturn ==
  /\ ePc = "done"
  /\ ePc' = "idle"
  /\ eBaseline' = ZeroResult
  /\ eIdx' = 0
  /\ eAttempt' = 0
  /\ inFlight' = {}
  /\ calls' = <<>>
  /\ failed' = {}
  /\ eResp' = NoReply
  /\ candidate' = <<>>
  /\ enriched' = <<>>
  /\ winner' = NIL
  /\ UNCHANGED providers

EnrichIdle ==
  /\ ePc = "idle"
  /\ eBaseline = ZeroResult
  /\ eIdx = 0
  /\ eAttempt = 0
  /\ inFlight = {}
  /\ calls = <<>>
  /\ failed = {}
  /\ eResp = NoReply
  /\ candidate = <<>>
  /\ enriched = <<>>
  /\ winner = NIL

EnrichInit ==
  /\ \E env \in Environments :
       /\ GLMAPIKey = Load(env).GLMAPIKey
       /\ DeepSeekAPIKey = Load(env).DeepSeekAPIKey
  /\ providers = newAuraAIAnalyzer(GLMAPIKey, DeepSeekAPIKey)
  /\ EnrichIdle


(***************************************************************************)
(* Two Create calls served by the same AuraService at the same time, each  *)
(* in its own goroutine.  A call has its own arguments and locals; the     *)
(* calls share the configuration, the static tables, the math/rand source  *)
(* createMockReading draws from and the store.                             *)
(***************************************************************************)
VARIABLES
  call,   \* call[i]: position, arguments and locals of the i-th call
  rows    \* rows the calls in progress have inserted into the store, in the
          \* order of the inserts, each with the call that inserted it

concVars == << call, rows >>

Calls == {1, 2}

IdleCall ==
  [ pc |-> "idle", userID |-> "u1", imageURL |-> "https://x/y.jpg", attempt |-> 0,
    outcomes |-> <<>>, aiErr |-> "", reading |-> <<>> ]

\* the provider cannot be reached, is rate limited, or answers with FullResult
CallFailures ==
  { Outcome("transport", 0, ZeroResult), Outcome("status", StatusTooManyRequests, ZeroResult) }

CallSuccesses == { Outcome("ok", StatusOK, FullResult) }

\* s.db.Create(reading) by call i
Inserted(i, r) == Append(rows, [by |-> i, row |-> r])

\* createMockReading on the lowest and highest draws of the color, the
\* other draws at their lowest
CallMockReadings(u, img) ==
  { MockReading(u, img, c, 0, 0, 0, 0) : c \in Intn(Len(colors)) }

\* Create, lines 183-188: without API key createMockReading answers the call
\* and inserts its reading, with one the first request is issued
CallBegin(i, u, img) ==
  /\ call[i].pc = "idle"
  /\ IF UsesMock(OpenAIAPIKey)
       THEN \E r \in CallMockReadings(u, img) :
              /\ call' = [call EXCEPT ![i] = [@ EXCEPT !.pc = "done", !.userID = u,
                                                        !.imageURL = img, !.reading = <<r>>]]
              /\ rows' = Inserted(i, r)
       ELSE /\ call' = [call EXCEPT ![i] = [@ EXCEPT !.pc = "http", !.userID = u,
                                                      !.imageURL = img]]
            /\ rows' = rows

\* callOpenAIVision, lines 257-263
CallRateLimited(i) ==
  /\ call[i].pc = "http"
  /\ \E r \in CallFailures :
       /\ Retries(r, call[i].attempt)
       /\ call' = [call EXCEPT ![i] = [@ EXCEPT !.pc = "sleep", !.attempt = @ + 1,
                                                 !.outcomes = Append(@, r)]]
  /\ rows' = rows

\* lines 252-256
CallBackoff(i) ==
  /\ call[i].pc = "sleep"
  /\ call' = [call EXCEPT ![i] = [@ EXCEPT !.pc = "http"]]
  /\ rows' = rows

\* lines 264 and 269 with Create, lines 189-192
CallFailed(i) ==
  /\ call[i].pc = "http"
  /\ \E r \in CallFailures, m \in CallMockReadings(call[i].userID, call[i].imageURL) :
       /\ ~Retries(r, call[i].attempt)
       /\ call' = [call EXCEPT ![i] = [@ EXCEPT !.pc = "done", !.aiErr = r.kind,
                                                 !.outcomes = Append(@, r),
                                                 !.reading = <<m>>]]
       /\ rows' = Inserted(i, m)

\* line 266 with Create, lines 194-215
CallOK(i) ==
  /\ call[i].pc = "http"
  /\ \E r \in CallSuccesses :
       LET built == AuraReading(call[i].userID, call[i].imageURL, validateAIResult(r.result))
       IN  /\ call' = [call EXCEPT ![i] = [@ EXCEPT !.pc = "done",
                                                     !.outcomes = Append(@, r),
                                                     !.reading = <<built>>]]
           /\ rows' = Inserted(i, built)

\* the caller has taken what the call returned; the goroutine is gone
CallReturn(i) ==
  /\ call[i].pc = "done"
  /\ call' = [call EXCEPT ![i] = IdleCall]
  /\ rows' = SelectSeq(rows, LAMBDA x : x.by # i)

ConcIdle ==
  /\ call = [i \in Calls |-> IdleCall]
  /\ rows = <<>>

(***************************************************************************)
(* handlers/aura_handler.go: the two scan routes, POST /aura/scan          *)
(* (AuraHandler.Scan) and POST /aura/scan/upload                           *)
(* (AuraHandler.ScanWithUpload), around AuraService.Create.  CanScan and   *)
(* IsSubscribed are collaborators: what CanScan answers is an input.       *)
(***************************************************************************)
VARIABLES
  hPc,       \* "idle" | "create" (the handler is inside Create) | "responded"
  route,     \* "scan" | "upload"
  gate,      \* what CanScan answered to this request, if it was asked
  status     \* status of the HTTP response, 0 while there is none

scanVars == << hPc, route, gate, status >>

Routes == {"scan", "upload"}

NotAsked == [asked |-> FALSE, allowed |-> FALSE, err |-> FALSE]

\* (allowed, _, err) of h.auraService.CanScan
GateAnswers == { [asked |-> TRUE, allowed |-> a, err |-> e] : a \in BOOLEAN, e \in BOOLEAN }

\* ScanGateStatus that lets a request through when allowed is false
ScanGateStatusErrOnly(g) == IF g.err THEN 500 ELSE 0

\* Scan, lines 58-63: the status the handler answers with right after the
\* gate, 0 when it goes on
ScanGateStatus(g) == IF g.err THEN 500 ELSE IF ~g.allowed THEN 429 ELSE 0

\* ScanWithUpload, lines 100-105
UploadGateStatus(g) == IF g.err THEN 500 ELSE IF ~g.allowed THEN 429 ELSE 0

GateStatus(rt, g) == IF rt = "scan" THEN ScanGateStatus(g) ELSE UploadGateStatus(g)

\* what the handler finds wrong with the request after the gate, and the
\* status it answers with: Scan, lines 67-78; ScanWithUpload, lines 108-134
RequestFaults(rt) ==
  IF rt = "scan"
    THEN { [fault |-> "body", status |-> 400], [fault |-> "tooLarge", status |-> 400],
           [fault |-> "noImage", status |-> 400] }
    ELSE { [fault |-> "noFile", status |-> 400], [fault |-> "fileType", status |-> 400],
           [fault |-> "fileSize", status |-> 400], [fault |-> "open", status |-> 500],
           [fault |-> "read", status |-> 500] }

\* req.ImageURL of the request handed to Create: Scan passes the parsed body
\* on, ScanWithUpload builds a request with ImageData only (lines 139-141)
RequestImageURLs(rt) == IF rt = "scan" THEN ImageURLs ELSE {""}

Respond(st) ==
  /\ status' = st
  /\ hPc' = "responded"

\* lines 49-53 and 91-95: the user id of the token does not parse
ScanInvalidUser(rt) ==
  /\ hPc = "idle"
  /\ route' = rt
  /\ gate' = NotAsked
  /\ Respond(400)
  /\ UNCHANGED srcVars

\* lines 56-63 and 98-105: CanScan failed or did not allow the scan
ScanGateBlocked(rt) ==
  /\ hPc = "idle"
  /\ route' = rt
  /\ \E g \in GateAnswers :
       /\ GateStatus(rt, g) # 0
       /\ gate' = g
       /\ Respond(GateStatus(rt, g))
  /\ UNCHANGED srcVars

\* lines 65-78 and 107-134: the gate let the request through and the request
\* is turned down for its body or its file
ScanBadRequest(rt) ==
  /\ hPc = "idle"
  /\ route' = rt
  /\ \E g \in GateAnswers :
       /\ GateStatus(rt, g) = 0
       /\ gate' = g
  /\ \E f \in RequestFaults(rt) : Respond(f.status)
  /\ UNCHANGED srcVars

\* lines 81 and 143: the request is handed to Create; C is the step Create
\* starts with
ScanCreate(rt, C) ==
  /\ hPc = "idle"
  /\ route' = rt
  /\ \E g \in GateAnswers :
       /\ GateStatus(rt, g) = 0
       /\ gate' = g
  /\ C
  /\ hPc' = "create"
  /\ UNCHANGED << status, prev >>

\* lines 82-86 and 144-148: Create has returned
ScanRespond ==
  /\ hPc = "create"
  /\ pc = "done"
  /\ Respond(IF err # "" THEN 500 ELSE 201)
  /\ UNCHANGED << route, gate >>
  /\ UNCHANGED srcVars

\* the response is out; the handler keeps nothing of the request
ScanReturn ==
  /\ hPc = "responded"
  /\ hPc' = "idle"
  /\ route' = "scan"
  /\ gate' = NotAsked
  /\ status' = 0
  /\ IF pc = "done" THEN Return /\ UNCHANGED prev ELSE UNCHANGED srcVars

ScanIdle ==
  /\ hPc = "idle"
  /\ route = "scan"
  /\ gate = NotAsked
  /\ status = 0

(***************************************************************************)
(* validateAIResult applied to its own result.                             *)
(***************************************************************************)
VARIABLES
  nPc,      \* "idle" | "in": the reply is decoded; "once"; "twice"
  nResult,  \* the result as decoded
  nOnce,    \* validateAIResult(nResult)
  nTwice    \* validateAIResult(nOnce)

normVars == << nPc, nResult, nOnce, nTwice >>

NormalizeIdle ==
  /\ nPc = "idle"
  /\ nResult = ZeroResult /\ nOnce = ZeroResult /\ nTwice = ZeroResult

NormalizeInit ==
  /\ nPc = "in"
  /\ nResult \in Replies
  /\ nOnce = ZeroResult /\ nTwice = ZeroResult

NormalizeOnce ==
  /\ nPc = "in"
  /\ nOnce' = validateAIResult(nResult)
  /\ nPc' = "once"
  /\ UNCHANGED << nResult, nTwice >>

NormalizeTwice ==
  /\ nPc = "once"
  /\ nTwice' = validateAIResult(nOnce)
  /\ nPc' = "twice"
  /\ UNCHANGED << nResult, nOnce >>

(***************************************************************************)
(* Part 5 models the guest history of the app (guestAuraHistory.ts): the   *)
(* readings of a guest, kept under one AsyncStorage key.  A reading is its *)
(* id and its created_at; ids are non-empty strings and created_at is a    *)
(* valid time, counted in units of the clock.  AsyncStorage calls succeed. *)
(***************************************************************************)
\* the length the history is cut to in the model
MaxHistory == 2
\* the age, in units of the clock, after which a reading is dropped
MaxAge == 2

\* line 4; 30 in the source, MaxHistory here so that a history can fill up
GUEST_AURA_HISTORY_MAX == MaxHistory
\* line 6; 30 days in the source, MaxAge units of the clock here
RETENTION_MS == MaxAge

\* the clock runs from 0 to LastNow
LastNow == RETENTION_MS + 2

GuestIds == {"a", "b", "c", "d"}
GuestTimes == 0..2
GuestReading(id, created_at) == [id |-> id, created_at |-> created_at]
GuestReadings == { GuestReading(id, t) : id \in GuestIds, t \in GuestTimes }

\* lines 35-39, for a valid time
isWithinRetention(created_at, now) == now - created_at <= RETENTION_MS

\* lines 45-66: id and created_at of a reading that has both are kept
normalizeGuestAuraReading(raw) == [id |-> raw.id, created_at |-> raw.created_at]

RECURSIVE InsertNewest(_, _)
\* Array.prototype.sort is stable: an item goes behind the items that are
\* not older than it
InsertNewest(sorted, item) ==
  IF sorted = <<>> THEN << item >>
  ELSE IF Head(sorted).created_at >= item.created_at
         THEN << Head(sorted) >> \o InsertNewest(Tail(sorted), item)
         ELSE << item >> \o sorted

RECURSIVE SortNewest(_)
\* .sort(sortNewest), lines 41-43
SortNewest(items) ==
  IF items = <<>> THEN <<>>
  ELSE InsertNewest(SortNewest(SubSeq(items, 1, Len(items) - 1)), items[Len(items)])

\* .slice(0, n)
Slice(items, n) == SubSeq(items, 1, IF Len(items) < n THEN Len(items) ELSE n)

\* .map((item) => normalizeGuestAuraReading(item)), lines 74 and 105
normalizeAll(items) == [i \in 1..Len(items) |-> normalizeGuestAuraReading(items[i])]

\* loadGuestAuraHistory without the sort
loadRetainedUnsorted(raw, now) ==
  LET normalized == normalizeAll(raw)
  IN  Slice(SelectSeq(normalized, LAMBDA item : isWithinRetention(item.created_at, now)),
            GUEST_AURA_HISTORY_MAX)

\* lines 74-78 of loadGuestAuraHistory: what it returns for the stored array
loadRetained(raw, now) ==
  LET normalized == normalizeAll(raw)
  IN  Slice(SortNewest(SelectSeq(normalized, LAMBDA item : isWithinRetention(item.created_at, now))),
            GUEST_AURA_HISTORY_MAX)

\* lines 80-82: the array is stored again when readings were dropped
loadStored(raw, now) ==
  IF Len(loadRetained(raw, now)) # Len(raw) THEN loadRetained(raw, now) ELSE raw

\* lines 92-96 of saveGuestAuraReading
saveNext(current, entry, now) ==
  LET filtered == SelectSeq(current, LAMBDA r : r.id # entry.id)
  IN  Slice(SortNewest(SelectSeq(<< entry >> \o filtered,
                                  LAMBDA item : isWithinRetention(item.created_at, now))),
            GUEST_AURA_HISTORY_MAX)

RECURSIVE dedupe(_, _, _)
\* the loop of saveGuestAuraReadings, lines 109-115
dedupe(normalized, deduped, now) ==
  IF normalized = <<>> THEN deduped
  ELSE LET entry == Head(normalized)
       IN  IF ~isWithinRetention(entry.created_at, now)
             THEN dedupe(Tail(normalized), deduped, now)
           ELSE IF \E i \in 1..Len(deduped) : deduped[i].id = entry.id
             THEN dedupe(Tail(normalized), deduped, now)
           ELSE IF Len(deduped) + 1 >= GUEST_AURA_HISTORY_MAX
             THEN Append(deduped, entry)
           ELSE dedupe(Tail(normalized), Append(deduped, entry), now)

\* line 122 of deleteGuestAuraReading
deleteNext(current, id) == SelectSeq(current, LAMBDA item : item.id # id)

VARIABLES
  gStore,    \* the array stored under GUEST_AURA_HISTORY_KEY, <<>> when absent
  gNow,      \* Date.now()
  gOp,       \* the operation completed last, "" at the start
  gRet,      \* what it returned: an array, or << reading >> / <<>> for
             \* getLatestGuestAuraReading
  gInitial,  \* the array stored when the two tasks start
  gTask      \* gTask[t]: position and locals of task t of two tasks that
             \* run saveGuestAuraReading or deleteGuestAuraReading

guestVars == << gStore, gNow, gOp, gRet, gInitial, gTask >>

Tasks == {1, 2}

IdleTask == [pc |-> "idle", op |-> "", reading |-> GuestReading("", 0), current |-> <<>>]

GuestIdle ==
  /\ gStore = <<>> /\ gNow = 0 /\ gOp = "" /\ gRet = <<>>
  /\ gInitial = <<>>
  /\ gTask = [t \in Tasks |-> IdleTask]

\* the operations one at a time, each from its call to its return
LoadGuestAuraHistory ==
  /\ gRet' = loadRetained(gStore, gNow)
  /\ gStore' = loadStored(gStore, gNow)
  /\ gOp' = "load"
  /\ UNCHANGED << gNow, gInitial, gTask >>

SaveGuestAuraReading(entry) ==
  /\ gStore' = saveNext(loadRetained(gStore, gNow), entry, gNow)
  /\ gOp' = "save"
  /\ gRet' = <<>>
  /\ UNCHANGED << gNow, gInitial, gTask >>

SaveGuestAuraReadings(readings) ==
  /\ gStore' = IF Len(readings) = 0 THEN gStore
               ELSE dedupe(normalizeAll(readings), <<>>, gNow)
  /\ gOp' = "saveMany"
  /\ gRet' = <<>>
  /\ UNCHANGED << gNow, gInitial, gTask >>

DeleteGuestAuraReading(id) ==
  /\ gStore' = deleteNext(loadRetained(gStore, gNow), id)
  /\ gOp' = "delete"
  /\ gRet' = <<>>
  /\ UNCHANGED << gNow, gInitial, gTask >>

GetLatestGuestAuraReading ==
  LET history == loadRetained(gStore, gNow)
  IN  /\ gRet' = IF Len(history) > 0 THEN << history[1] >> ELSE <<>>
      /\ gStore' = loadStored(gStore, gNow)
      /\ gOp' = "getLatest"
      /\ UNCHANGED << gNow, gInitial, gTask >>

\* time passes
ClockTick ==
  /\ gNow < LastNow
  /\ gNow' = gNow + 1
  /\ UNCHANGED << gStore, gOp, gRet, gInitial, gTask >>

\* the arrays saveGuestAuraReadings is called with: none, one or two
\* readings, and two longer ones, the second with an id twice
ReadingArrays ==
  { <<>> } \cup { << r >> : r \in GuestReadings }
  \cup { << r, s >> : r \in GuestReadings, s \in GuestReadings }
  \cup { << GuestReading("a", 0), GuestReading("b", 2), GuestReading("c", 1),
            GuestReading("d", 2) >>,
         << GuestReading("a", 1), GuestReading("a", 2), GuestReading("b", 0),
            GuestReading("c", 2), GuestReading("d", 1) >> }

\* two tasks at the same time: a task is suspended at each await
TaskArrays == { <<>>, << GuestReading("c", 0) >> }
TaskTimes == { RETENTION_MS, RETENTION_MS + 1 }
TaskIds == {"a", "b", "c"}

TasksInit ==
  /\ gInitial \in TaskArrays
  /\ gStore = gInitial
  /\ gNow \in TaskTimes
  /\ gOp = "" /\ gRet = <<>>
  /\ gTask = [t \in Tasks |-> IdleTask]

\* saveGuestAuraReading(reading) is called, line 90
TaskSave(t, entry) ==
  /\ gTask[t].pc = "idle"
  /\ gTask' = [gTask EXCEPT ![t] = [pc |-> "getItem", op |-> "save", reading |-> entry,
                                    current |-> <<>>]]
  /\ UNCHANGED << gStore, gNow, gOp, gRet, gInitial >>

\* deleteGuestAuraReading(id) is called, line 120
TaskDelete(t, id) ==
  /\ gTask[t].pc = "idle"
  /\ gTask' = [gTask EXCEPT ![t] = [pc |-> "getItem", op |-> "delete",
                                    reading |-> GuestReading(id, 0), current |-> <<>>]]
  /\ UNCHANGED << gStore, gNow, gOp, gRet, gInitial >>

\* line 70 answers: lines 71-80
TaskGetItem(t) ==
  /\ gTask[t].pc = "getItem"
  /\ gTask' = [gTask EXCEPT ![t].current = loadRetained(gStore, gNow),
                            ![t].pc = IF Len(loadRetained(gStore, gNow)) # Len(gStore)
                                        THEN "putBack" ELSE "setItem"]
  /\ UNCHANGED << gStore, gNow, gOp, gRet, gInitial >>

\* line 81 writes
TaskPutBack(t) ==
  /\ gTask[t].pc = "putBack"
  /\ gStore' = gTask[t].current
  /\ gTask' = [gTask EXCEPT ![t].pc = "setItem"]
  /\ UNCHANGED << gNow, gOp, gRet, gInitial >>

\* line 97 or line 123 writes, and the operation returns
TaskSetItem(t) ==
  /\ gTask[t].pc = "setItem"
  /\ gStore' = IF gTask[t].op = "save"
                 THEN saveNext(gTask[t].current, gTask[t].reading, gNow)
                 ELSE deleteNext(gTask[t].current, gTask[t].reading.id)
  /\ gTask' = [gTask EXCEPT ![t].pc = "done"]
  /\ gOp' = gTask[t].op
  /\ UNCHANGED << gNow, gRet, gInitial >>

(***************************************************************************)
(* The specifications.  Each runs one part of the model and leaves the     *)
(* variables of the other parts as they are.                               *)
(***************************************************************************)
vars ==
  << srcVars, mergeVars, enrichVars, cfgVars, scanVars, concVars, normVars, guestVars >>

appVars == << normVars, guestVars >>
serviceVars == << srcVars, mergeVars, enrichVars, cfgVars, scanVars, concVars >>

OnlySrc(A) == A /\ UNCHANGED << mergeVars, enrichVars, cfgVars, scanVars, concVars, appVars >>
OnlyMerge(A) == A /\ UNCHANGED << srcVars, enrichVars, cfgVars, scanVars, concVars, appVars >>
OnlyEnrich(A) == A /\ UNCHANGED << srcVars, mergeVars, cfgVars, scanVars, concVars, appVars >>
OnlyScan(A) == A /\ UNCHANGED << mergeVars, enrichVars, cfgVars, concVars, appVars >>
OnlyConc(A) == A /\ UNCHANGED << srcVars, mergeVars, enrichVars, cfgVars, scanVars, appVars >>
OnlyNormalize(A) == A /\ UNCHANGED << serviceVars, guestVars >>
OnlyGuest(A) == A /\ UNCHANGED << serviceVars, normVars >>

\* the service of aura_service.go serving Create calls
\* the parts a specification does not run
Others == ConcIdle /\ NormalizeIdle /\ GuestIdle

Init ==
  /\ SrcInit /\ MergeIdle /\ NoProviderConfig /\ providers = <<>> /\ EnrichIdle /\ ScanIdle
  /\ Others

Next ==
  \/ OnlySrc(\E u \in UserIDs, img \in ImageURLs : CreateMock(u, img, BOOLEAN) /\ UNCHANGED prev)
  \/ OnlySrc(\E u \in UserIDs, img \in ImageURLs : CreateStart(u, img) /\ UNCHANGED prev)
  \/ OnlySrc(HttpRateLimited(Failures))
  \/ OnlySrc(Backoff)
  \/ OnlySrc(HttpFailed(Failures, BOOLEAN))
  \/ OnlySrc(HttpOK(Successes, BOOLEAN))
  \/ OnlySrc(Return /\ UNCHANGED prev)

Spec == Init /\ [][Next]_vars

\* the same service, one call compared with the call before
NextRepeat ==
  \/ OnlySrc(\E u \in UserIDs : CreateMock(u, "https://x/y.jpg", {TRUE}) /\ UNCHANGED prev)
  \/ OnlySrc(\E u \in UserIDs : CreateStart(u, "https://x/y.jpg") /\ UNCHANGED prev)
  \/ OnlySrc(HttpFailed({Outcome("transport", 0, ZeroResult)}, {TRUE}))
  \/ OnlySrc(HttpOK({Outcome("ok", StatusOK, FullResult)}, {TRUE}))
  \/ OnlySrc(Return /\ Remember)

SpecRepeat == Init /\ [][NextRepeat]_vars

\* mergeAuraAnalysis on its own
InitMerge ==
  /\ SrcInit /\ OpenAIAPIKey = ""
  /\ MergeInit
  /\ NoProviderConfig /\ providers = <<>> /\ EnrichIdle
  /\ ScanIdle
  /\ Others

NextMerge == OnlyMerge(MergeCall)

SpecMerge == InitMerge /\ [][NextMerge]_vars

\* the orchestrator serving enrich calls
InitEnrich ==
  /\ SrcInit /\ OpenAIAPIKey = ""
  /\ MergeIdle
  /\ EnrichInit
  /\ ScanIdle
  /\ Others

NextEnrich ==
  \/ OnlyEnrich(\E b \in Baselines : EnrichBegin(b))
  \/ OnlyEnrich(ProviderRateLimited(ProviderOutcomes))
  \/ OnlyEnrich(ProviderBackoff)
  \/ OnlyEnrich(ProviderFailed(ProviderOutcomes))
  \/ OnlyEnrich(ProviderSucceeded(ProviderOutcomes))
  \/ OnlyEnrich(EnrichReturn)

SpecEnrich == InitEnrich /\ [][NextEnrich]_vars

\* the scan routes in front of the service; the provider cannot be reached,
\* is rate limited, fails with a 500, or answers with FullResult
ScanFailures ==
  { Outcome("transport", 0, ZeroResult), Outcome("status", StatusTooManyRequests, ZeroResult),
    Outcome("status", StatusInternalServerError, ZeroResult) }

NextScan ==
  \/ OnlyScan(\E rt \in Routes : ScanInvalidUser(rt))
  \/ OnlyScan(\E rt \in Routes : ScanGateBlocked(rt))
  \/ OnlyScan(\E rt \in Routes : ScanBadRequest(rt))
  \/ OnlyScan(\E rt \in Routes, u \in UserIDs : \E img \in RequestImageURLs(rt) :
                ScanCreate(rt, CreateMock(u, img, BOOLEAN)))
  \/ OnlyScan(\E rt \in Routes, u \in UserIDs : \E img \in RequestImageURLs(rt) :
                ScanCreate(rt, CreateStart(u, img)))
  \/ OnlySrc(HttpRateLimited(ScanFailures))
  \/ OnlySrc(Backoff)
  \/ OnlySrc(HttpFailed(ScanFailures, BOOLEAN))
  \/ OnlySrc(HttpOK({Outcome("ok", StatusOK, FullResult)}, BOOLEAN))
  \/ OnlyScan(ScanRespond)
  \/ OnlyScan(ScanReturn)

SpecScan == Init /\ [][NextScan]_vars

\* two calls of Create at the same time
NextConcurrent ==
  \/ OnlyConc(\E i \in Calls, u \in UserIDs : CallBegin(i, u, "https://x/y.jpg"))
  \/ OnlyConc(\E i \in Calls : CallRateLimited(i))
  \/ OnlyConc(\E i \in Calls : CallBackoff(i))
  \/ OnlyConc(\E i \in Calls : CallFailed(i))
  \/ OnlyConc(\E i \in Calls : CallOK(i))
  \/ OnlyConc(\E i \in Calls : CallReturn(i))

SpecConcurrent == Init /\ [][NextConcurrent]_vars

\* the same with every request coming to an end (http.Client has a Timeout
\* of 30 seconds, line 273) and every backoff coming to an end (time.Sleep
\* of 2 seconds, line 253)
RequestEnds(i) ==
  \/ OnlyConc(CallRateLimited(i))
  \/ OnlyConc(CallFailed(i))
  \/ OnlyConc(CallOK(i))

SpecLive ==
  /\ SpecConcurrent
  /\ \A i \in Calls : WF_vars(RequestEnds(i)) /\ WF_vars(OnlyConc(CallBackoff(i)))

\* the service at rest, no provider configured
ServiceIdle ==
  /\ SrcInit /\ OpenAIAPIKey = ""
  /\ MergeIdle
  /\ NoProviderConfig /\ providers = <<>> /\ EnrichIdle
  /\ ScanIdle
  /\ ConcIdle

\* validateAIResult on its own
InitNormalize == ServiceIdle /\ NormalizeInit /\ GuestIdle

NextNormalize ==
  \/ OnlyNormalize(NormalizeOnce)
  \/ OnlyNormalize(NormalizeTwice)

SpecNormalize == InitNormalize /\ [][NextNormalize]_vars

\* the guest history, one operation at a time
InitGuest == ServiceIdle /\ NormalizeIdle /\ GuestIdle

NextGuest ==
  \/ OnlyGuest(LoadGuestAuraHistory)
  \/ OnlyGuest(\E entry \in GuestReadings : SaveGuestAuraReading(entry))
  \/ OnlyGuest(\E readings \in ReadingArrays : SaveGuestAuraReadings(readings))
  \/ OnlyGuest(\E id \in GuestIds : DeleteGuestAuraReading(id))
  \/ OnlyGuest(GetLatestGuestAuraReading)
  \/ OnlyGuest(ClockTick)

SpecGuest == InitGuest /\ [][NextGuest]_vars

\* the guest history, two operations at the same time
InitTasks == ServiceIdle /\ NormalizeIdle /\ TasksInit

NextTasks ==
  \/ OnlyGuest(\E t \in Tasks, id \in TaskIds : TaskSave(t, GuestReading(id, gNow)))
  \/ OnlyGuest(\E t \in Tasks, id \in TaskIds : TaskDelete(t, id))
  \/ OnlyGuest(\E t \in Tasks : TaskGetItem(t))
  \/ OnlyGuest(\E t \in Tasks : TaskPutBack(t))
  \/ OnlyGuest(\E t \in Tasks : TaskSetItem(t))

SpecTasks == InitTasks /\ [][NextTasks]_vars

(***************************************************************************)
(* The constraints of an AnalysisResult.                                   *)
(***************************************************************************)
AuraColorEnum ==
  {"red", "orange", "yellow", "green", "blue", "indigo", "violet", "white", "gold", "pink"}

SecondaryColorEnum == {"silver", "gold", "white", "black", "grey"}

ColorAndNumbersValid(r) ==
  /\ r.AuraColor \in AuraColorEnum
  /\ 1 <= r.EnergyLevel /\ r.EnergyLevel <= 100
  /\ 1 <= r.MoodScore /\ r.MoodScore <= 10

SecondaryValid(r) ==
  r.SecondaryColor # NIL =>
    r.SecondaryColor \in SecondaryColorEnum /\ r.SecondaryColor # r.AuraColor

ThreeNonEmpty(a) == Len(a) = 3 /\ \A i \in 1..Len(a) : a[i] # ""

TextsValid(r) ==
  /\ r.Personality # ""
  /\ r.DailyAdvice # ""
  /\ ThreeNonEmpty(r.Strengths)
  /\ ThreeNonEmpty(r.Challenges)

\* the readings a finished call handed out: the one returned and the rows inserted
HandedOut == { reading[i] : i \in 1..Len(reading) } \cup { inserts[i] : i \in 1..Len(inserts) }

FellBack == pc = "done" /\ aiErr # ""

\* C1: whatever the provider did, a reading Create returns has its color in
\* the 10-color set, its energy in 1..100 and its mood in 1..10.
C1_ResultInRange == pc = "done" => \A r \in HandedOut : ColorAndNumbersValid(r)

\* C1 witness: the provider answered with an energy above 100 and a mood
\* below 1, and Create returned a reading
C1_Witness ==
  /\ pc = "done"
  /\ resp.kind = "ok"
  /\ resp.result.EnergyLevel > 100
  /\ resp.result.MoodScore < 1
  /\ Len(reading) = 1

\* C2: a secondary color in a returned reading is one of the 5 allowed ones
\* and differs from the primary color.
C2_SecondaryDistinct == pc = "done" => \A r \in HandedOut : SecondaryValid(r)

\* C3: in a returned reading personality and dailyAdvice are non-empty and
\* strengths and challenges each hold exactly 3 non-empty strings.
C3_TextsComplete == pc = "done" => \A r \in HandedOut : TextsValid(r)

\* C4: when the provider call failed and the store took the insert, Create
\* returns no error and a reading that meets every constraint.
C4_FailureStillValid ==
  (FellBack /\ err # "db") =>
    /\ err = ""
    /\ Len(reading) = 1
    /\ ColorAndNumbersValid(reading[1])
    /\ SecondaryValid(reading[1])
    /\ TextsValid(reading[1])

SameRequestAsBefore ==
  /\ prev # <<>>
  /\ prev[1].userID = userID
  /\ prev[1].imageURL = imageURL

\* C5: when the provider fails on two calls in a row with the same userID
\* and image, the second call returns what the first returned.
C5_FallbackRepeats ==
  (FellBack /\ SameRequestAsBefore /\ prev[1].aiErr # "") =>
    reading = prev[1].reading

\* C6: two runs of the baseline generator on the same userID and image give
\* the same auraColor, secondaryColor, energyLevel and moodScore.
C6_BaselineRepeats ==
  (pc = "done" /\ mock # <<>> /\ SameRequestAsBefore /\ prev[1].mock # <<>>) =>
    /\ mock[1].AuraColor = prev[1].mock[1].AuraColor
    /\ mock[1].SecondaryColor = prev[1].mock[1].SecondaryColor
    /\ mock[1].EnergyLevel = prev[1].mock[1].EnergyLevel
    /\ mock[1].MoodScore = prev[1].mock[1].MoodScore

\* C9: with no credential configured Create issues no HTTP request and
\* returns the generated baseline as it is.
C9_NoCredentialNoRequest ==
  OpenAIAPIKey = "" =>
    /\ pc \in {"idle", "done"}
    /\ httpCount = 0
    /\ resp = NoResponse
    /\ pc = "done" => /\ Len(mock) = 1
                      /\ \A r \in HandedOut : r = mock[1]
                      /\ err = "" => reading = mock

\* C9 witness: a call without credential has returned its reading
C9_Witness == OpenAIAPIKey = "" /\ pc = "done" /\ Len(reading) = 1 /\ reading = mock


\* place of provider p in the configured list
Position(p) == CHOOSE i \in 1..Len(providers) : providers[i] = p

\* C7: when a provider call has succeeded, enrich is over: the request of
\* the provider that succeeded is the last one issued, only providers before
\* it were called and all of them failed, and enrich returns the merge of
\* its normalized candidate onto the baseline.
C7_FirstGoodAnswerWins ==
  winner # NIL =>
    /\ ePc = "done"
    /\ inFlight = {}
    /\ calls # <<>> /\ calls[Len(calls)] = winner
    /\ \A i \in 1..Len(calls) : Position(calls[i]) <= Position(winner)
    /\ failed = { providers[j] : j \in 1..(Position(winner) - 1) }
    /\ normalize(eResp.candidate).ok
    /\ candidate = <<normalize(eResp.candidate).result>>
    /\ enriched = <<mergeAuraAnalysis(eBaseline, candidate[1])>>

\* C7 witness: with the list [glm, deepseek], glm failed, deepseek
\* succeeded and its merged result was returned
C7_Witness ==
  /\ providers = <<"glm", "deepseek">>
  /\ ePc = "done"
  /\ failed = {"glm"}
  /\ winner = "deepseek"
  /\ Len(enriched) = 1
  /\ enriched[1].EnergyLevel = 88
  /\ eBaseline.EnergyLevel = 50

\* C8: at most one provider request is in flight, it is the request of the
\* provider being attempted, every provider before that one has failed, and
\* requests are issued in the order of the list.
C8_OneAtATimeInOrder ==
  /\ Cardinality(inFlight) <= 1
  /\ inFlight # {} => ePc = "call" /\ inFlight = {providers[eIdx]}
  /\ ePc \in {"call", "backoff"} =>
       /\ eIdx \in 1..Len(providers)
       /\ failed = { providers[j] : j \in 1..(eIdx - 1) }
       /\ calls # <<>> /\ calls[Len(calls)] = providers[eIdx]
  /\ \A i, j \in 1..Len(calls) : i < j => Position(calls[i]) <= Position(calls[j])

\* C8 witness: the request of the second provider is in flight after the
\* first provider was retried and failed
C8_Witness ==
  /\ providers = <<"glm", "deepseek">>
  /\ ePc = "call"
  /\ inFlight = {"deepseek"}
  /\ calls = <<"glm", "glm", "deepseek">>
  /\ failed = {"glm"}

\* C10: the merged value of a field is the value of the incoming candidate
\* when that value is non-empty or non-zero, a number being clamped into its
\* range, and the value of the base otherwise; {"", 120, 0} merged onto
\* {red, 50, 7} gives {red, 100, 7}.
C10_MergeOverrides ==
  mPc = "out" =>
    /\ mIncoming.AuraColor = "" => mMerged.AuraColor = mBase.AuraColor
    /\ mIncoming.AuraColor \in AuraColorEnum => mMerged.AuraColor = mIncoming.AuraColor
    /\ mIncoming.SecondaryColor \in {NIL, ""} => mMerged.SecondaryColor = mBase.SecondaryColor
    /\ mIncoming.SecondaryColor \notin {NIL, ""} =>
         mMerged.SecondaryColor = mIncoming.SecondaryColor
    /\ mIncoming.EnergyLevel = 0 => mMerged.EnergyLevel = mBase.EnergyLevel
    /\ mIncoming.EnergyLevel \in 1..100 => mMerged.EnergyLevel = mIncoming.EnergyLevel
    /\ mIncoming.EnergyLevel > 100 => mMerged.EnergyLevel = 100
    /\ mIncoming.EnergyLevel < 0 => mMerged.EnergyLevel = 1
    /\ mIncoming.MoodScore = 0 => mMerged.MoodScore = mBase.MoodScore
    /\ mIncoming.MoodScore \in 1..10 => mMerged.MoodScore = mIncoming.MoodScore
    /\ mIncoming.MoodScore > 10 => mMerged.MoodScore = 10
    /\ mIncoming.MoodScore < 0 => mMerged.MoodScore = 1
    /\ mMerged.Personality =
         IF mIncoming.Personality = "" THEN mBase.Personality ELSE mIncoming.Personality
    /\ mMerged.DailyAdvice =
         IF mIncoming.DailyAdvice = "" THEN mBase.DailyAdvice ELSE mIncoming.DailyAdvice
    /\ mMerged.Strengths =
         IF mIncoming.Strengths = <<>> THEN mBase.Strengths ELSE mIncoming.Strengths
    /\ mMerged.Challenges =
         IF mIncoming.Challenges = <<>> THEN mBase.Challenges ELSE mIncoming.Challenges

\* C10 witness: the merge of the test, {"", 120, 0} onto {red, 50, 7}
C10_Witness ==
  /\ mPc = "out"
  /\ mBase.AuraColor = "red" /\ mBase.EnergyLevel = 50 /\ mBase.MoodScore = 7
  /\ mIncoming.AuraColor = "" /\ mIncoming.EnergyLevel = 120 /\ mIncoming.MoodScore = 0
  /\ mMerged.AuraColor = "red" /\ mMerged.EnergyLevel = 100 /\ mMerged.MoodScore = 7

\* C11: a merge onto a valid baseline gives a result that meets every
\* constraint of an AnalysisResult, and a color that is empty or outside the
\* 10-color set after the merge is replaced by the one default color.
C11_MergeAlwaysValid ==
  (mPc = "out" /\ ColorAndNumbersValid(mBase) /\ SecondaryValid(mBase) /\ TextsValid(mBase)) =>
    /\ ColorAndNumbersValid(mMerged)
    /\ SecondaryValid(mMerged)
    /\ TextsValid(mMerged)
    /\ LET c == IF mIncoming.AuraColor # "" THEN mIncoming.AuraColor ELSE mBase.AuraColor
       IN  c \notin AuraColorEnum => mMerged.AuraColor = "blue"

\* the color of the reply the provider gave, trimmed and lower-cased
ReplyColorCanonical == ToLower(TrimSpace(resp.result.AuraColor))

\* Create has returned after the provider answered with a decodable reply
Answered == pc = "done" /\ resp.kind = "ok"

\* C12: a reply whose color, trimmed and lower-cased, is not one of the 10
\* allowed values is rejected, so the call is answered by the fallback and no
\* default color stands in for it; a reply whose color is an allowed value up
\* to case and surrounding white space is accepted with the lower-case color.
C12_UnknownColorRejected ==
  Answered =>
    /\ ReplyColorCanonical \notin AuraColorEnum => mock # <<>>
    /\ ReplyColorCanonical \in AuraColorEnum =>
         /\ mock = <<>>
         /\ \A r \in HandedOut : r.AuraColor = ReplyColorCanonical

\* C13: the energy of a reply is clamped into 1..100 and its mood into 1..10
\* (below 1 gives 1, above the maximum gives the maximum, a value in range is
\* kept), and a reply is never turned down for a number out of range.
C13_NumbersClamped ==
  Answered =>
    /\ aiErr = "" /\ mock = <<>>
    /\ \A r \in HandedOut :
         LET e == resp.result.EnergyLevel
             m == resp.result.MoodScore
         IN  /\ e < 1 => r.EnergyLevel = 1
             /\ e > 100 => r.EnergyLevel = 100
             /\ e \in 1..100 => r.EnergyLevel = e
             /\ m < 1 => r.MoodScore = 1
             /\ m > 10 => r.MoodScore = 10
             /\ m \in 1..10 => r.MoodScore = m

\* C13 witness: a reply with energy 120 and mood -1 came back as a reading
\* with energy 100 and mood 1
C13_Witness ==
  /\ Answered
  /\ resp.result.EnergyLevel = 120 /\ resp.result.MoodScore = -1
  /\ Len(reading) = 1
  /\ reading[1].EnergyLevel = 100 /\ reading[1].MoodScore = 1

\* the secondary color rule 2 of the normalizer gives for a reply's value
SecondaryExpected(s) ==
  IF s = NIL
    THEN NIL
    ELSE LET c == ToLower(TrimSpace(s))
         IN  IF c = "" \/ c = "null" \/ c \notin SecondaryColorEnum THEN NIL ELSE c

\* C14: the secondary color of a reply never makes the reply fail; trimmed
\* and lower-cased, an empty string, "null" or a value outside the 5 allowed
\* ones becomes absent and an allowed value is kept in lower case.
C14_SecondaryNormalized ==
  Answered =>
    /\ aiErr = "" /\ mock = <<>>
    /\ \A r \in HandedOut : r.SecondaryColor = SecondaryExpected(resp.result.SecondaryColor)

\* the placeholders a short array is padded with
StrengthPlaceholders == <<"Resilience", "Adaptability", "Awareness">>
ChallengePlaceholders == <<"Self-doubt", "Overthinking", "Boundaries">>

\* out is the array in cut to its first 3 elements or padded at the end
CutOrPadded(in, out, placeholders) ==
  /\ Len(out) = 3
  /\ \A i \in 1..3 : out[i] = IF i <= Len(in) THEN in[i] ELSE placeholders[i]

\* C15: whatever the length of the arrays of a reply, strengths and
\* challenges of the reading have exactly 3 elements: the first 3 of a longer
\* array, a shorter array followed by fixed placeholders; the reply is never
\* turned down for the length of an array.
C15_ArraysOfThree ==
  Answered =>
    /\ aiErr = "" /\ mock = <<>>
    /\ \A r \in HandedOut :
         /\ CutOrPadded(resp.result.Strengths, r.Strengths, StrengthPlaceholders)
         /\ CutOrPadded(resp.result.Challenges, r.Challenges, ChallengePlaceholders)

\* C15 witness: a reply with 4 strengths and 1 challenge came back as a reading
C15_Witness ==
  /\ Answered
  /\ Len(resp.result.Strengths) = 4 /\ Len(resp.result.Challenges) = 1
  /\ Len(reading) = 1
  /\ reading[1].Strengths = <<"w1", "w2", "w3">>
  /\ reading[1].Challenges = <<"w1", "Overthinking", "Boundaries">>

\* C16: within one provider call a second HTTP request is issued only after
\* the first one ended with status 429 and only out of the backoff, no more
\* than two requests are issued, and any other failure ends the call with an
\* error without a further request.
C16_RetryBoundedSelective ==
  [][ /\ httpCount' <= 2
      /\ httpCount' > httpCount =>
           \/ pc = "idle" /\ httpCount = 0 /\ httpCount' = 1
           \/ pc = "sleep" /\ resp.status = StatusTooManyRequests /\ httpCount = 1 /\ httpCount' = 2
      /\ pc' = "sleep" =>
           \/ pc = "sleep"
           \/ pc = "http" /\ httpCount = 1 /\ resp'.status = StatusTooManyRequests
      /\ (pc = "http" /\ pc' # "http" /\ resp'.kind # "ok"
            /\ resp'.status # StatusTooManyRequests) =>
           /\ pc' = "done"
           /\ aiErr' # ""
           /\ httpCount' = httpCount
    ]_vars

\* C16 witness: the first request was rate limited, the second one too, and
\* the call ended with an error after two requests
C16_Witness ==
  /\ pc = "done"
  /\ httpCount = 2
  /\ attempt = 2
  /\ resp.status = StatusTooManyRequests
  /\ aiErr = "status"

\* C17: a decodable reply whose color the normalizer rejects is a failure of
\* the provider: the call goes on as after a transport or decode failure and
\* what is returned is the fallback result, with nothing of the reply in it.
C17_RejectedReplyIsFailure ==
  (Answered /\ ReplyColorCanonical \notin AuraColorEnum) =>
    /\ aiErr # ""
    /\ Len(mock) = 1
    /\ \A r \in HandedOut : r = mock[1]

\* C18: a personality or dailyAdvice the provider did not supply is the
\* Trait Catalog text of the color of the returned reading; without a
\* provider both are the catalog texts of the color of the baseline.
C18_TraitsOfFinalColor ==
  pc = "done" =>
    \A r \in HandedOut :
      /\ (Answered /\ resp.result.Personality = "") =>
           r.Personality = colorTraits[r.AuraColor].personality
      /\ (Answered /\ resp.result.DailyAdvice = "") =>
           r.DailyAdvice = colorTraits[r.AuraColor].dailyAdvice
      /\ OpenAIAPIKey = "" =>
           /\ Len(mock) = 1 /\ r.AuraColor = mock[1].AuraColor
           /\ r.Personality = colorTraits[r.AuraColor].personality
           /\ r.DailyAdvice = colorTraits[r.AuraColor].dailyAdvice

\* C18 witness: the provider answered gold without personality or advice and
\* the reading carries the texts of gold
C18_Witness ==
  /\ Answered
  /\ resp.result.AuraColor = "gold"
  /\ resp.result.Personality = "" /\ resp.result.DailyAdvice = ""
  /\ Len(reading) = 1
  /\ reading[1].AuraColor = "gold"
  /\ reading[1].Personality = "Confident, abundant, and empowered."
  /\ reading[1].DailyAdvice = "Share your abundance with others. Practice humility."

\* the providers in the list
Listed == { providers[i] : i \in 1..Len(providers) }

\* the credential configured for provider p
Credential(p) == IF p = "glm" THEN GLMAPIKey ELSE DeepSeekAPIKey

\* C19: the provider list holds exactly the providers whose credential is
\* not empty, each once, GLM before DeepSeek, and a provider without
\* credential is never sent a request.
C19_ListFromCredentials ==
  /\ Listed = { p \in {"glm", "deepseek"} : Credential(p) # "" }
  /\ Len(providers) = Cardinality(Listed)
  /\ \A i, j \in 1..Len(providers) :
       (providers[i] = "glm" /\ providers[j] = "deepseek") => i < j
  /\ \A k \in 1..Len(calls) : Credential(calls[k]) # ""
  /\ \A p \in inFlight : Credential(p) # ""

\* C19 witness: only DeepSeek has a credential and a call went to deepseek
\* alone
C19_Witness ==
  /\ GLMAPIKey = "" /\ DeepSeekAPIKey = "ds-key"
  /\ providers = <<"deepseek">>
  /\ ePc = "done"
  /\ calls = <<"deepseek">>

\* C20: when CanScan answers with an error or with allowed = false, the
\* request of either scan route is answered at once: Create is not entered,
\* no provider request is issued and no reading is built or inserted.
C20_GateShortCircuits ==
  (gate.asked /\ (gate.err \/ ~gate.allowed)) =>
    /\ hPc = "responded"
    /\ status \in {429, 500}
    /\ pc = "idle"
    /\ httpCount = 0
    /\ mock = <<>> /\ reading = <<>> /\ inserts = <<>>

\* C20 witness: the upload route answered 429 to a request the gate did not
\* allow, and nothing was created
C20_Witness ==
  /\ route = "upload"
  /\ gate.asked /\ ~gate.allowed /\ ~gate.err
  /\ hPc = "responded" /\ status = 429
  /\ pc = "idle" /\ httpCount = 0 /\ inserts = <<>>

\* two calls that were given the same arguments and the same provider outcomes
SameInputs(i, j) ==
  /\ call[i].userID = call[j].userID
  /\ call[i].imageURL = call[j].imageURL
  /\ call[i].outcomes = call[j].outcomes

\* C21: calls running at the same time do not interfere: the configuration
\* is never written, and what a call returns is determined by its own
\* arguments and its own provider outcomes, so two calls with the same
\* arguments and outcomes return the same result however they interleave.
C21_CallsIndependent ==
  [][ /\ OpenAIAPIKey' = OpenAIAPIKey
      /\ \A i, j \in Calls :
           (call'[i].pc = "done" /\ call'[j].pc = "done" /\ SameInputs(i, j)') =>
             call'[i].reading = call'[j].reading
    ]_vars

\* providers the service is configured with: OpenAI when it has a key
ConfiguredProviders == IF OpenAIAPIKey = "" THEN 0 ELSE 1

\* HTTP requests call i has issued: those that have ended and the one under way
Requests(i) == Len(call[i].outcomes) + (IF call[i].pc = "http" THEN 1 ELSE 0)

C23_NormalizedBeforeUse ==
  Answered =>
    \A r \in HandedOut :
      /\ r = AuraReading(userID, imageURL, validateAIResult(resp.result))
      /\ validateAIResult(resp.result) # resp.result =>
           r # AuraReading(userID, imageURL, resp.result)

\* C23 witness: the reply GOLD with energy 0 was returned and inserted as
\* gold with energy 1
C23_Witness ==
  /\ Answered
  /\ resp.result.AuraColor = "GOLD" /\ resp.result.EnergyLevel = 0
  /\ Len(reading) = 1 /\ inserts = reading
  /\ reading[1].AuraColor = "gold" /\ reading[1].EnergyLevel = 1

\* C24: the text of a reply is decoded directly, then, when that fails, from
\* its first "{" to its last "}", so that JSON inside prose or fences is
\* accepted like plain JSON; only text that fails both ends in a parse error.
C24_TwoStepDecode ==
  pc = "done" =>
    /\ resp.kind = "ok" => aiErr = "" /\ mock = <<>>
    /\ resp.kind = "badContent" => aiErr = "badContent"
    /\ resp.kind = "wrappedContent" =>
         /\ aiErr = "" /\ mock = <<>>
         /\ \A r \in HandedOut :
              r = AuraReading(userID, imageURL, validateAIResult(resp.result))

\* the values of a byte of the hash
Bytes == 0..255

\* C25: the color of a baseline is entry (byte[0] mod 10) of the 10-color
\* list, its energy is byte[1] mod 51 + 45, in 45..95, and its mood is
\* byte[2] mod 6 + 5, in 5..10, for bytes of the hash of the inputs; so a
\* baseline is within 1..100 and 1..10.
C25_BaselineFromBytes ==
  mock # <<>> =>
    /\ \E b \in Bytes : mock[1].AuraColor = colors[(b % 10) + 1]
    /\ \E b \in Bytes : mock[1].EnergyLevel = (b % 51) + 45
    /\ \E b \in Bytes : mock[1].MoodScore = (b % 6) + 5
    /\ mock[1].EnergyLevel \in 45..95 /\ mock[1].MoodScore \in 5..10

\* C26: a baseline has a secondary color only when one is drawn, the drawn
\* color is an entry of the 5-color list, and a drawn color equal to the
\* primary color is left out.
C26_BaselineSecondary ==
  mock # <<>> =>
    \/ mock[1].SecondaryColor = NIL
    \/ /\ \E b \in Bytes : mock[1].SecondaryColor = secondaryColors[(b % 5) + 1]
       /\ mock[1].SecondaryColor # mock[1].AuraColor

\* C27: validateAIResult applied to a result it has validated changes no
\* field of it.
C27_NormalizeIdempotent ==
  nPc = "twice" =>
    /\ nTwice.AuraColor = nOnce.AuraColor
    /\ nTwice.SecondaryColor = nOnce.SecondaryColor
    /\ nTwice.EnergyLevel = nOnce.EnergyLevel
    /\ nTwice.MoodScore = nOnce.MoodScore
    /\ nTwice.Strengths = nOnce.Strengths
    /\ nTwice.Challenges = nOnce.Challenges
    /\ nTwice.Personality = nOnce.Personality
    /\ nTwice.DailyAdvice = nOnce.DailyAdvice

\* a reply with no challenge and an energy of 120 was validated twice: the
\* first pass filled and clamped it, the second changed nothing
C27_Witness ==
  /\ nPc = "twice"
  /\ nResult.Challenges = <<>> /\ nOnce.Challenges # <<>>
  /\ nTwice = nOnce

\* C28: a call of Create inserts at most one reading; a call that returns a
\* reading has inserted that reading and nothing else; a call that returns
\* an error, and a call that has not returned, has inserted nothing.
C28_OneInsertPerCall ==
  /\ Len(inserts) <= 1
  /\ pc = "done" /\ reading # <<>> => inserts = reading /\ err = ""
  /\ pc = "done" /\ err # "" => inserts = <<>> /\ reading = <<>>
  /\ pc # "done" => inserts = <<>>

\* the provider failed, the fallback answered: its reading is the one row
C28_Witness ==
  /\ pc = "done"
  /\ aiErr # ""
  /\ mock # <<>>
  /\ reading = mock
  /\ inserts = mock

NewestFirst(items) ==
  \A i, j \in 1..Len(items) : i < j => items[i].created_at >= items[j].created_at

Stored == { gStore[i] : i \in 1..Len(gStore) }

\* C29: with the operations run one at a time, the stored history is never
\* longer than GUEST_AURA_HISTORY_MAX and never holds an id twice;
\* loadGuestAuraHistory returns the stored readings newest first; and
\* getLatestGuestAuraReading returns a stored reading that no stored reading
\* is newer than, or null when nothing is stored.
C29_HistoryCappedUniqueNewestFirst ==
  /\ Len(gStore) <= GUEST_AURA_HISTORY_MAX
  /\ \A i, j \in 1..Len(gStore) : gStore[i].id = gStore[j].id => i = j
  /\ gOp = "load" =>
       /\ NewestFirst(gRet)
       /\ Len(gRet) = Len(gStore)
       /\ { gRet[i] : i \in 1..Len(gRet) } = Stored
  /\ gOp = "getLatest" =>
       IF gStore = <<>> THEN gRet = <<>>
       ELSE /\ Len(gRet) = 1
            /\ gRet[1] \in Stored
            /\ \A r \in Stored : r.created_at <= gRet[1].created_at

\* a full history stored oldest first by saveGuestAuraReadings was loaded
C29_Witness ==
  /\ gOp = "load"
  /\ Len(gStore) = GUEST_AURA_HISTORY_MAX
  /\ ~NewestFirst(gStore)
  /\ NewestFirst(gRet)

Done(t) == gTask[t].pc = "done"
StoredIds == { gStore[i].id : i \in 1..Len(gStore) }

\* C30: when two saveGuestAuraReading calls with different ids, started with
\* room in the history for both, have both returned, both readings are
\* stored; when a deleteGuestAuraReading and a saveGuestAuraReading of
\* another id have both returned, the saved reading is stored and the
\* deleted one is not.
C30_NoReadingLost ==
  \A t, u \in Tasks :
    Done(t) /\ Done(u) /\ gTask[t].op = "save" /\ gTask[t].reading.id # gTask[u].reading.id =>
      /\ gTask[u].op = "save" /\ Len(gInitial) + 2 <= GUEST_AURA_HISTORY_MAX =>
           {gTask[t].reading.id, gTask[u].reading.id} \subseteq StoredIds
      /\ gTask[u].op = "delete" /\ Len(gInitial) + 1 <= GUEST_AURA_HISTORY_MAX =>
           gTask[t].reading.id \in StoredIds /\ gTask[u].reading.id \notin StoredIds

====
